---- MODULE Spec2Model ----
(***************************************************************************)
(* Station Master: the daily planning component (DailyPlanning.tsx, the    *)
(* version with lanes) as a state machine.                                 *)
(*                                                                         *)
(* The records store is modelled by its two tables for the planning date:  *)
(* dailyAssignments and workHistory, both bags of rows (the tables have no *)
(* uniqueness constraint in the source).  The component's React state is   *)
(* modelled by assignments, draggedEmployee, warningDialog, loading and    *)
(* the toast of the last handler call.  Handlers run one after the other:   *)
(* a call of distributeEmployees, handleDrop or performMove is one step.    *)
(***************************************************************************)
EXTENDS Integers, Sequences, FiniteSets, Bags, TLC

(***************************************************************************)
(* Bounds of the model.                                                    *)
(***************************************************************************)
\* Number of active employees on the roster.
NumWorkers == 2
\* Number of lanes of the lane-bearing station (11 or 6 in the source).
NumLanes == 2
\* Largest headcount typed into a station's need field.
MaxNeed == 2
\* Number of handler calls that issue writes (distribute runs and moves).
MaxOps == 3
\* Number of store writes that the environment lets fail.
MaxFaults == 1

(***************************************************************************)
(* Program constants.                                                      *)
(***************************************************************************)
\* lane: number | null.  Lanes are numbered from 1, so 0 stands for null.
NULL == 0
\* Dates, as day numbers: today, the start of the six-month window, and a
\* day before the window.
Today == 2
SixMonthsAgo == 1
LongAgo == SixMonthsAgo - 1
\* stationCount > 5
OveruseFloor == 5

\* The station list, in the source's order, with one station of each kind:
\* two plain stations, one with lanes, and the free-text station.
STATIONS == <<"Plock", "Pack", "KM", "FL">>

\* Which stations have lanes.
STATION_LANES == [s \in {"Pack"} |-> NumLanes]

StationSet == {STATIONS[i] : i \in 1..Len(STATIONS)}

\* The lanes a drop on station s can name: 1..N for a lane-bearing station.
LanesOf(s) == IF s \in DOMAIN STATION_LANES THEN 1..STATION_LANES[s] ELSE {}

\* Text is a sequence of characters.
WorkerIds == <<"w1", "w2", "w3", "w4">>
WorkerNames == << <<"A">>, <<"B">>, <<"C">>, <<"D">> >>

\* The roster of active employees, ordered by name.
employees == [i \in 1..NumWorkers |-> [id |-> WorkerIds[i], name |-> WorkerNames[i]]]

EmployeeIds == {employees[i].id : i \in 1..NumWorkers}

\* employees.find((e) => e.id === id)?.name || ""
EmployeeName(id) ==
  IF \E i \in 1..NumWorkers : employees[i].id = id
  THEN employees[CHOOSE i \in 1..NumWorkers : employees[i].id = id].name
  ELSE <<>>

(***************************************************************************)
(* Sequences.                                                              *)
(***************************************************************************)
Range(seq) == {seq[i] : i \in 1..Len(seq)}

\* Array.prototype.filter with the predicate "is in keep".
RECURSIVE FilterIn(_, _)
FilterIn(seq, keep) ==
  IF seq = <<>> THEN <<>>
  ELSE IF Head(seq) \in keep
       THEN <<Head(seq)>> \o FilterIn(Tail(seq), keep)
       ELSE FilterIn(Tail(seq), keep)

\* Sequences of distinct elements of S, of every length.
RECURSIVE DistinctSeqs(_)
DistinctSeqs(S) ==
  {<<>>} \cup UNION {{<<x>> \o t : t \in DistinctSeqs(S \ {x})} : x \in S}

\* Array.prototype.sort with comparator (a, b) => key(a) - key(b): ascending
\* by key and stable.  pairs is a sequence of [item, key] records.
RECURSIVE InsertByKey(_, _)
InsertByKey(p, sorted) ==
  IF sorted = <<>> THEN <<p>>
  ELSE IF p.key < Head(sorted).key
       THEN <<p>> \o sorted
       ELSE <<Head(sorted)>> \o InsertByKey(p, Tail(sorted))

RECURSIVE SortByKey(_)
SortByKey(pairs) ==
  IF pairs = <<>> THEN <<>>
  ELSE InsertByKey(pairs[Len(pairs)], SortByKey(SubSeq(pairs, 1, Len(pairs) - 1)))

Items(pairs) == [i \in 1..Len(pairs) |-> pairs[i].item]

\* The position of w in a sequence (0 when it is not there).
PositionIn(seq, w) ==
  IF \E i \in 1..Len(seq) : seq[i] = w
  THEN CHOOSE i \in 1..Len(seq) : seq[i] = w
  ELSE 0

(***************************************************************************)
(* The records store.                                                      *)
(***************************************************************************)
NoRows == SetToBag({})

AssignmentRow(employeeId, station, lane) ==
  [employee_id |-> employeeId, station |-> station, lane |-> lane]

HistoryRow(employeeId, station, lane, date) ==
  [employee_id |-> employeeId, station |-> station, lane |-> lane, work_date |-> date]

\* insert(row): when the write fails the table is unchanged.
InsertRow(table, row, ok) == IF ok THEN table (+) SetToBag({row}) ELSE table

KeepRows(table, keep) == [r \in {x \in DOMAIN table : x \in keep} |-> table[r]]

\* A faulty variant: the rows of the date are left in place.
DeleteAssignmentsSkipped(table, ok) == table

\* daily_assignments.delete().eq("assigned_date", today)
DeleteAssignmentsOfDate(table, ok) == IF ok THEN NoRows ELSE table

\* A faulty variant: the delete's filter matches no row.
DeleteAssignmentNoMatch(table, employeeId, station, ok) == table

\* daily_assignments.delete().eq("employee_id", ..).eq("assigned_date", today)
\*   .eq("station", ..): every lane of the station.
DeleteAssignment(table, employeeId, station, ok) ==
  IF ok
  THEN KeepRows(table, {r \in DOMAIN table :
                          ~(r.employee_id = employeeId /\ r.station = station)})
  ELSE table

\* work_history.delete().eq("employee_id", ..).eq("work_date", today)
\*   .eq("station", ..)
DeleteHistory(table, employeeId, station, ok) ==
  IF ok
  THEN KeepRows(table, {r \in DOMAIN table :
                          ~(r.employee_id = employeeId /\ r.work_date = Today
                            /\ r.station = station)})
  ELSE table

\* The number of rows of a table that are in a set of rows.
CountRows(table, rows) == BagCardinality(KeepRows(table, rows))

\* A faulty variant: the query has no filter on the employee.
GetEmployeeHistoryOfAll(table, employeeId) ==
  LET data == {r \in DOMAIN table : r.work_date >= SixMonthsAgo}
  IN [s \in {r.station : r \in data} |->
        CountRows(table, {r \in data : r.station = s})]

\* A faulty variant: the query has no filter on the date.
GetEmployeeHistoryNoWindow(table, employeeId) ==
  LET data == {r \in DOMAIN table : r.employee_id = employeeId}
  IN [s \in {r.station : r \in data} |->
        CountRows(table, {r \in data : r.station = s})]

\* getEmployeeHistory: the rows of the employee dated in the window, counted
\* per station; a station without a row has no key.
GetEmployeeHistory(table, employeeId) ==
  LET data == {r \in DOMAIN table :
                 r.employee_id = employeeId /\ r.work_date >= SixMonthsAgo}
  IN [s \in {r.station : r \in data} |->
        CountRows(table, {r \in data : r.station = s})]

\* history[station] || 0
CountAt(history, station) ==
  IF station \in DOMAIN history THEN history[station] ELSE 0

RECURSIVE SumOver(_, _)
SumOver(f, S) ==
  IF S = {} THEN 0
  ELSE LET x == CHOOSE y \in S : TRUE IN f[x] + SumOver(f, S \ {x})

\* A faulty variant: the count is compared with the floor only.
OveruseWarningFloorOnly(history, toStation) ==
  CountAt(history, toStation) > OveruseFloor

\* A faulty variant: the average is taken over all stations of the list, the
\* ones never visited included.
OveruseWarningAllStations(history, toStation) ==
  LET stationCount == CountAt(history, toStation)
      sum == SumOver(history, DOMAIN history)
  IN /\ 2 * Len(STATIONS) * stationCount > 3 * sum
     /\ stationCount > OveruseFloor

(***************************************************************************)
(* OveruseGuard (handleDrop).                                              *)
(*   avgCount = sum(values) / keys.length || 0                             *)
(*   stationCount > avgCount * 1.5 && stationCount > 5                     *)
(* The comparison is done on integers: with n keys,                        *)
(* stationCount > 1.5 * sum / n  iff  2 * n * stationCount > 3 * sum.      *)
(* An empty history divides 0 by 0, NaN, which "|| 0" turns into 0.        *)
(***************************************************************************)
OveruseWarning(history, toStation) ==
  LET stationCount == CountAt(history, toStation)
      n == Cardinality(DOMAIN history)
      sum == SumOver(history, DOMAIN history)
  IN /\ IF n = 0 THEN stationCount > 0
                 ELSE 2 * n * stationCount > 3 * sum
     /\ stationCount > OveruseFloor

(***************************************************************************)
(* AssignmentPlanner (distributeEmployees), the in-memory part.            *)
(***************************************************************************)
\* stationNeeds[station] || 0
NeedOf(stationNeeds, station) ==
  IF station \in DOMAIN stationNeeds THEN stationNeeds[station] ELSE 0

\* STATIONS.filter((s) => s !== "FL")
StationsToFill == FilterIn(STATIONS, StationSet \ {"FL"})

\* A faulty variant: the stations with a need are kept in list order.
SortedStationsUnsorted(stationNeeds) ==
  FilterIn(StationsToFill, {s \in StationSet : NeedOf(stationNeeds, s) > 0})

\* stationsToFill.filter(need > 0).sort((a, b) => need(b) - need(a))
SortedStations(stationNeeds) ==
  LET positive == FilterIn(StationsToFill,
                           {s \in StationSet : NeedOf(stationNeeds, s) > 0})
  IN Items(SortByKey([i \in 1..Len(positive) |->
                        [item |-> positive[i],
                         key |-> 0 - NeedOf(stationNeeds, positive[i])]]))

\* A faulty variant: the employees already assigned are not filtered out.
AvailableUnfiltered(employeeHistories, assignedEmployees, station) ==
  Items(SortByKey([i \in 1..Len(employeeHistories) |->
                     [item |-> employeeHistories[i],
                      key |-> CountAt(employeeHistories[i].history, station)]]))

\* A faulty variant: the free employees are left in selection order.
AvailableUnsorted(employeeHistories, assignedEmployees, station) ==
  FilterIn(employeeHistories,
           {e \in Range(employeeHistories) : e.id \notin assignedEmployees})

\* employeeHistories.filter(not yet assigned).sort(by count at the station)
Available(employeeHistories, assignedEmployees, station) ==
  LET free == FilterIn(employeeHistories,
                       {e \in Range(employeeHistories) : e.id \notin assignedEmployees})
  IN Items(SortByKey([i \in 1..Len(free) |->
                        [item |-> free[i],
                         key |-> CountAt(free[i].history, station)]]))

\* A faulty variant: the loop runs over every available employee.
TakeAllAvailable(available, needed) ==
  [i \in 1..Len(available) |-> available[i].id]

\* A faulty variant: the loop stops after its first employee.
TakeOneFor(available, needed) ==
  IF needed > 0 /\ Len(available) > 0 THEN <<available[1].id>> ELSE <<>>

\* for (let i = 0; i < needed && i < available.length; i++): the employees
\* taken for one station.
TakeFor(available, needed) ==
  LET n == IF needed < Len(available) THEN needed ELSE Len(available)
  IN [i \in 1..(IF n < 0 THEN 0 ELSE n) |-> available[i].id]

\* The placements of one run, in the order in which they are written: the
\* loop over sortedStations.  The histories are fetched once, before the loop,
\* and the loop reads nothing else from the store.
RECURSIVE FillStations(_, _, _, _)
FillStations(stations, stationNeeds, employeeHistories, assignedEmployees) ==
  IF stations = <<>> THEN <<>>
  ELSE LET station == Head(stations)
           taken == TakeFor(Available(employeeHistories, assignedEmployees, station),
                            NeedOf(stationNeeds, station))
       IN [i \in 1..Len(taken) |-> [employeeId |-> taken[i], station |-> station]]
          \o FillStations(Tail(stations), stationNeeds, employeeHistories,
                          assignedEmployees \cup Range(taken))

Placements(stationNeeds, employeeHistories) ==
  FillStations(SortedStations(stationNeeds), stationNeeds, employeeHistories, {})

\* An entry of the assignment snapshot.
Assignment(employeeId, employeeName, station, lane) ==
  [employeeId |-> employeeId, employeeName |-> employeeName,
   station |-> station, lane |-> lane]

\* flManual.trim(): the text without its leading and trailing blanks.
RECURSIVE TrimStart(_)
TrimStart(text) ==
  IF text # <<>> /\ Head(text) = " " THEN TrimStart(Tail(text)) ELSE text

RECURSIVE TrimEnd(_)
TrimEnd(text) ==
  IF text # <<>> /\ text[Len(text)] = " "
  THEN TrimEnd(SubSeq(text, 1, Len(text) - 1))
  ELSE text

Trim(text) == TrimEnd(TrimStart(text))

\* A faulty variant: FL's entry holds the trimmed text.
ManualEntryTrimmed(flManual) ==
  IF Trim(flManual) # <<>>
  THEN <<Assignment("manual", Trim(flManual), "FL", NULL)>>
  ELSE <<>>

\* if (flManual.trim()) newAssignments.push({employeeId: "manual", ...})
ManualEntry(flManual) ==
  IF Trim(flManual) # <<>>
  THEN <<Assignment("manual", flManual, "FL", NULL)>>
  ELSE <<>>

(***************************************************************************)
(* AssignmentStore (performMove), the in-memory part.                      *)
(***************************************************************************)
\* assignments.filter((a) => !(same employee, station and lane)), then
\* push({...draggedEmployee, station: toStation, lane: toLane}).
UpdatedAssignments(snapshot, dragged, toStation, toLane) ==
  FilterIn(snapshot, {a \in Range(snapshot) :
                        ~(a.employeeId = dragged.employeeId
                          /\ a.station = dragged.station
                          /\ a.lane = dragged.lane)})
  \o <<Assignment(dragged.employeeId, dragged.employeeName, toStation, toLane)>>

(***************************************************************************)
(* What the page shows (renderStationCard).                                *)
(***************************************************************************)
\* getAssignmentsByStation(station).length > 0: the card of a station other
\* than FL is rendered only when the snapshot holds an entry for it.
CardShown(snapshot, station) ==
  station # "FL" /\ \E a \in Range(snapshot) : a.station = station

\* The draggable badges: every entry of a plain station, and the entries of a
\* lane-bearing station that are in one of its lanes.  FL has no badge.
Draggable(snapshot) ==
  {a \in Range(snapshot) :
     /\ a.station # "FL"
     /\ (LanesOf(a.station) = {} \/ a.lane \in LanesOf(a.station))}

\* The drop targets: onDrop={() => handleDrop(station, lane)} on each lane of
\* a lane-bearing station, onDrop={() => handleDrop(station, null)} on the
\* card of a plain one.
DropTargets(snapshot) ==
  {t \in [station : StationSet, lane : {NULL} \cup (1..NumLanes)] :
     /\ CardShown(snapshot, t.station)
     /\ IF LanesOf(t.station) = {} THEN t.lane = NULL
                                   ELSE t.lane \in LanesOf(t.station)}

(***************************************************************************)
(* State.                                                                  *)
(***************************************************************************)
VARIABLES
  dailyAssignments,  \* table daily_assignments, the rows of today
  workHistory,       \* table work_history
  stationNeeds,      \* useState<Record<string, number>>
  assignments,       \* useState<Assignment[]>: the snapshot on screen
  draggedEmployee,   \* useState<Assignment | null>: <<>> or <<entry>>
  warningDialog,     \* useState<{...} | null>: <<>> or <<dialog>>
  loading,           \* useState(false)
  dragging,          \* the browser has a drag of a badge in progress
  lastCall,          \* the last handler call: how it ended, what it showed
  ops,               \* handler calls that issued writes so far
  faultBudget        \* writes the store may still fail

vars == <<dailyAssignments, workHistory, stationNeeds, assignments,
          draggedEmployee, warningDialog, loading, dragging, lastCall, ops,
          faultBudget>>

NoToast == [title |-> "", variant |-> ""]

\* lastCall: the handler, the branch it took, the selection it was called
\* with (distributeEmployees), whether it looked the history up, its toast.
Call(handler, result, selected, fetched, toast) ==
  [handler |-> handler, result |-> result, selected |-> selected,
   fetched |-> fetched, toast |-> toast]

\* The history a worker brings into the day: rows per station inside the
\* window, and rows at Plock from before the window.
Profile(plock, pack, km, oldPlock) ==
  [recent |-> [s \in {"Plock", "Pack", "KM"} |->
                 IF s = "Plock" THEN plock ELSE IF s = "Pack" THEN pack ELSE km],
   old |-> oldPlock]

NewWorker == Profile(0, 0, 0, 0)

Profiles ==
  { NewWorker,
    Profile(10, 2, 0, 0),    \* one station visited far more often
    Profile(6, 0, 2, 0),     \* count = 1.5 * avg exactly
    Profile(5, 0, 1, 3),     \* count = 5, and older rows outside the window
    Profile(1, 7, 0, 0),     \* the lane-bearing station visited far more often
    Profile(0, 0, 7, 0) }    \* one station only, always the last one

\* The first worker of the roster has any of the profiles, the others are new.
ProfilesOf(id) == IF id = employees[1].id THEN Profiles ELSE {NewWorker}

\* The ledger at the start of the day, given each worker's profile.
Ledger(profileOf) ==
  LET rows == {HistoryRow(w, s, NULL, SixMonthsAgo) :
                 w \in EmployeeIds, s \in {"Plock", "Pack", "KM"}}
              \cup {HistoryRow(w, "Plock", NULL, LongAgo) : w \in EmployeeIds}
      copies(r) == IF r.work_date = LongAgo
                   THEN profileOf[r.employee_id].old
                   ELSE profileOf[r.employee_id].recent[r.station]
  IN [r \in {x \in rows : copies(x) > 0} |-> copies(r)]

\* The needs typed into the form: a headcount per station (min="0"); FL's
\* field is disabled.
Needs == [Range(StationsToFill) -> 0..MaxNeed]

\* The page after mount: today's tables are empty, the needs are loaded.
InitWith(budget) ==
  /\ dailyAssignments = NoRows
  /\ \E profileOf \in [EmployeeIds -> Profiles] :
       /\ \A id \in EmployeeIds : profileOf[id] \in ProfilesOf(id)
       /\ workHistory = Ledger(profileOf)
  /\ stationNeeds \in Needs
  /\ assignments = <<>>
  /\ draggedEmployee = <<>>
  /\ warningDialog = <<>>
  /\ loading = FALSE
  /\ dragging = FALSE
  /\ lastCall = Call("mount", "done", <<>>, FALSE, NoToast)
  /\ ops = 0
  /\ faultBudget = budget

Init == InitWith(MaxFaults)

\* The number of failed writes among the outcomes of a step.
Failed(oks) == Cardinality({i \in 1..Len(oks) : ~oks[i]})

\* The environment: the outcomes of the n writes of a step, within the budget.
Outcomes(n) == {oks \in [1..n -> BOOLEAN] : Failed(oks) <= faultBudget}

\* The rest of the form.
Selections == DistinctSeqs(EmployeeIds)
Texts == {<<>>, <<" ">>, <<" ", "E">>}

\* The operator can use the page: no modal dialog is open and no drag is in
\* progress.
PageIdle == warningDialog = <<>> /\ ~dragging

(***************************************************************************)
(* distributeEmployees.                                                    *)
(***************************************************************************)
\* employeeHistories: Promise.all over the selection, in selection order.
EmployeeHistories(selectedEmployees, ledger) ==
  [i \in 1..Len(selectedEmployees) |->
     [id |-> selectedEmployees[i],
      history |-> GetEmployeeHistory(ledger, selectedEmployees[i])]]

\* newAssignments, as pushed by the loop.
NewAssignments(placements) ==
  [i \in 1..Len(placements) |->
     Assignment(placements[i].employeeId,
                EmployeeName(placements[i].employeeId),
                placements[i].station, NULL)]

\* The inserts of placements from..Len(placements) into daily_assignments;
\* oks[2 * i] is the outcome of the insert of placement i.
RECURSIVE InsertAssignments(_, _, _, _)
InsertAssignments(table, placements, from, oks) ==
  IF from > Len(placements) THEN table
  ELSE InsertAssignments(
         InsertRow(table,
                   AssignmentRow(placements[from].employeeId,
                                 placements[from].station, NULL),
                   oks[2 * from]),
         placements, from + 1, oks)

\* The inserts into work_history; oks[2 * i + 1] is the outcome for placement i.
RECURSIVE InsertHistories(_, _, _, _)
InsertHistories(table, placements, from, oks) ==
  IF from > Len(placements) THEN table
  ELSE InsertHistories(
         InsertRow(table,
                   HistoryRow(placements[from].employeeId,
                              placements[from].station, NULL, Today),
                   oks[2 * from + 1]),
         placements, from + 1, oks)

\* if (selectedEmployees.length === 0) { toast(...); return; }
DistributeRejected(selectedEmployees) ==
  /\ lastCall' = Call("distributeEmployees", "rejected", selectedEmployees, FALSE,
                      [title |-> "Ingen vald", variant |-> "destructive"])
  /\ UNCHANGED <<dailyAssignments, workHistory, assignments, draggedEmployee,
                 warningDialog, loading, dragging, ops, faultBudget>>

\* The call past its validation: the delete of today's rows (outcome oks[1]),
\* the history lookups, the loops with their inserts, FL's entry,
\* setAssignments, the toast.
DistributeRun(selectedEmployees, flManual) ==
  LET placements == Placements(stationNeeds,
                               EmployeeHistories(selectedEmployees, workHistory))
  IN /\ \E oks \in Outcomes(1 + 2 * Len(placements)) :
          /\ dailyAssignments' =
               InsertAssignments(DeleteAssignmentsOfDate(dailyAssignments, oks[1]),
                                 placements, 1, oks)
          /\ workHistory' = InsertHistories(workHistory, placements, 1, oks)
          /\ faultBudget' = faultBudget - Failed(oks)
     /\ assignments' = NewAssignments(placements) \o ManualEntry(flManual)
     /\ lastCall' = Call("distributeEmployees", "done", selectedEmployees, TRUE,
                         [title |-> "Fordelning klar!", variant |-> ""])
     /\ ops' = ops + 1
     /\ UNCHANGED <<draggedEmployee, warningDialog, loading, dragging>>

\* A faulty variant: the selection is not validated.
DistributeUnvalidated(selectedEmployees, flManual) ==
  /\ PageIdle
  /\ ~loading
  /\ UNCHANGED stationNeeds
  /\ ops < MaxOps
  /\ DistributeRun(selectedEmployees, flManual)

\* A call of distributeEmployees, with the form as it then is.
DistributeEmployees(selectedEmployees, flManual) ==
  /\ PageIdle
  /\ ~loading
  /\ UNCHANGED stationNeeds
  /\ IF Len(selectedEmployees) = 0
     THEN DistributeRejected(selectedEmployees)
     ELSE ops < MaxOps /\ DistributeRun(selectedEmployees, flManual)

(***************************************************************************)
(* Drag and drop.                                                          *)
(***************************************************************************)
\* handleDragStart: setDraggedEmployee(assignment).
HandleDragStart(assignment) ==
  /\ PageIdle
  /\ assignment \in Draggable(assignments)
  /\ draggedEmployee' = <<assignment>>
  /\ dragging' = TRUE
  /\ lastCall' = Call("handleDragStart", "done", <<>>, FALSE, NoToast)
  /\ UNCHANGED <<dailyAssignments, workHistory, stationNeeds, assignments,
                 warningDialog, loading, ops, faultBudget>>

\* performMove(toStation, toLane), called from the render in which dragged
\* and snapshot are the values of draggedEmployee and assignments: the four
\* writes, then the state setters.
PerformMove(dragged, snapshot, toStation, toLane, oks) ==
  /\ dailyAssignments' =
       InsertRow(DeleteAssignment(dailyAssignments, dragged.employeeId,
                                  dragged.station, oks[1]),
                 AssignmentRow(dragged.employeeId, toStation, toLane), oks[2])
  /\ workHistory' =
       InsertRow(DeleteHistory(workHistory, dragged.employeeId,
                               dragged.station, oks[3]),
                 HistoryRow(dragged.employeeId, toStation, toLane, Today), oks[4])
  /\ assignments' = UpdatedAssignments(snapshot, dragged, toStation, toLane)
  /\ draggedEmployee' = <<>>
  /\ warningDialog' = <<>>
  /\ loading' = FALSE
  /\ ops' = ops + 1
  /\ faultBudget' = faultBudget - Failed(oks)

\* The tables after the four writes of performMove, all of them applied.
MovedRows(table, dragged, toStation, toLane) ==
  InsertRow(DeleteAssignment(table, dragged.employeeId, dragged.station, TRUE),
            AssignmentRow(dragged.employeeId, toStation, toLane), TRUE)

MovedLedger(table, dragged, toStation, toLane) ==
  InsertRow(DeleteHistory(table, dragged.employeeId, dragged.station, TRUE),
            HistoryRow(dragged.employeeId, toStation, toLane, Today), TRUE)

Moved == [title |-> "Flyttad!", variant |-> ""]

\* A faulty variant: only the missing drag is tested.
NothingDragged(dragged, toStation, toLane) == dragged = <<>>

\* if (!draggedEmployee || (same station && same lane))
SamePlace(dragged, toStation, toLane) ==
  dragged = <<>> \/ (dragged[1].station = toStation /\ dragged[1].lane = toLane)

\* handleDrop past its first test: the history lookup, then the warning
\* dialog or the move.
CheckedDrop(dragged, toStation, toLane) ==
  LET history == GetEmployeeHistory(workHistory, dragged.employeeId)
  IN IF OveruseWarning(history, toStation)
     THEN /\ warningDialog' =
               <<[show |-> TRUE,
                  employeeName |-> dragged.employeeName,
                  toStation |-> toStation,
                  count |-> CountAt(history, toStation),
                  onConfirm |-> [toStation |-> toStation, toLane |-> toLane,
                                 draggedEmployee |-> dragged,
                                 assignments |-> assignments]]>>
          /\ lastCall' = Call("handleDrop", "warn", <<>>, TRUE, NoToast)
          /\ UNCHANGED <<dailyAssignments, workHistory, assignments,
                         draggedEmployee, loading, ops, faultBudget>>
     ELSE /\ ops < MaxOps
          /\ \E oks \in Outcomes(4) :
               PerformMove(dragged, assignments, toStation, toLane, oks)
          /\ lastCall' = Call("handleDrop", "moved", <<>>, TRUE, Moved)

\* handleDrop(toStation, toLane).
HandleDrop(toStation, toLane) ==
  /\ dragging
  /\ [station |-> toStation, lane |-> toLane] \in DropTargets(assignments)
  /\ dragging' = FALSE
  /\ UNCHANGED stationNeeds
  /\ IF SamePlace(draggedEmployee, toStation, toLane)
     THEN /\ draggedEmployee' = <<>>
          /\ lastCall' = Call("handleDrop", "noop", <<>>, FALSE, NoToast)
          /\ UNCHANGED <<dailyAssignments, workHistory, assignments,
                         warningDialog, loading, ops, faultBudget>>
     ELSE CheckedDrop(draggedEmployee[1], toStation, toLane)

\* A faulty variant: the confirmation calls performMove(toStation) only, and
\* the lane takes its default, null.
ConfirmMoveWithoutLane ==
  /\ warningDialog # <<>>
  /\ ops < MaxOps
  /\ LET c == warningDialog[1].onConfirm
     IN \E oks \in Outcomes(4) :
          PerformMove(c.draggedEmployee, c.assignments, c.toStation, NULL, oks)
  /\ lastCall' = Call("onConfirm", "moved", <<>>, FALSE, Moved)
  /\ UNCHANGED <<stationNeeds, dragging>>

\* AlertDialogAction: warningDialog.onConfirm().
ConfirmMove ==
  /\ warningDialog # <<>>
  /\ ops < MaxOps
  /\ LET c == warningDialog[1].onConfirm
     IN \E oks \in Outcomes(4) :
          PerformMove(c.draggedEmployee, c.assignments, c.toStation, c.toLane, oks)
  /\ lastCall' = Call("onConfirm", "moved", <<>>, FALSE, Moved)
  /\ UNCHANGED <<stationNeeds, dragging>>

\* A faulty variant: the cancel button runs the pending move as well.
CancelMoveApplies ==
  /\ warningDialog # <<>>
  /\ ops < MaxOps
  /\ LET c == warningDialog[1].onConfirm
     IN \E oks \in Outcomes(4) :
          PerformMove(c.draggedEmployee, c.assignments, c.toStation, c.toLane, oks)
  /\ lastCall' = Call("onCancel", "done", <<>>, FALSE, NoToast)
  /\ UNCHANGED <<stationNeeds, dragging>>

\* AlertDialogCancel: onOpenChange(false) sets warningDialog to null.
CancelMove ==
  /\ warningDialog # <<>>
  /\ warningDialog' = <<>>
  /\ lastCall' = Call("onCancel", "done", <<>>, FALSE, NoToast)
  /\ UNCHANGED <<dailyAssignments, workHistory, stationNeeds, assignments,
                 draggedEmployee, loading, dragging, ops, faultBudget>>

(***************************************************************************)
(* The specifications.                                                     *)
(***************************************************************************)
Next ==
  \/ \E selectedEmployees \in Selections, flManual \in Texts :
       DistributeEmployees(selectedEmployees, flManual)
  \/ \E assignment \in Range(assignments) : HandleDragStart(assignment)
  \/ \E toStation \in StationSet, toLane \in {NULL} \cup (1..NumLanes) :
       HandleDrop(toStation, toLane)
  \/ ConfirmMove
  \/ CancelMove

\* Writes may fail, up to MaxFaults of them.
Spec == Init /\ [][Next]_vars

(***************************************************************************)
(* The page reloaded during the day.  On mount loadTodayAssignments copies *)
(* the rows of the date into the snapshot.  The day was planned before the *)
(* reload: EarlierRuns complete runs of distributeEmployees with every     *)
(* worker of the roster selected.                                          *)
(***************************************************************************)
EarlierRuns == 2

EveryWorker == [i \in 1..NumWorkers |-> employees[i].id]

\* The tables after k complete runs on a day that started with the ledger.
RECURSIVE StoredTables(_, _, _)
StoredTables(needs, ledger, k) ==
  IF k = 0 THEN [daily |-> NoRows, history |-> ledger]
  ELSE LET before == StoredTables(needs, ledger, k - 1)
           placements == Placements(needs, EmployeeHistories(EveryWorker, before.history))
           oks == [i \in 1..(1 + 2 * Len(placements)) |-> TRUE]
       IN [daily |-> InsertAssignments(NoRows, placements, 1, oks),
           history |-> InsertHistories(before.history, placements, 1, oks)]

\* data.map((item) => ({employeeId: item.employee_id, employeeName:
\* item.employees.name, station: item.station, lane: item.lane})): one entry
\* per row, in the order of the roster here (the query has no order).
RECURSIVE EntriesOfRows(_, _)
EntriesOfRows(table, rows) ==
  IF rows = {} THEN <<>>
  ELSE LET r == CHOOSE x \in rows :
                  \A y \in rows : PositionIn(WorkerIds, x.employee_id)
                                    <= PositionIn(WorkerIds, y.employee_id)
       IN [i \in 1..CopiesIn(r, table) |->
             Assignment(r.employee_id, EmployeeName(r.employee_id), r.station, r.lane)]
          \o EntriesOfRows(table, rows \ {r})

LoadTodayAssignments(table) == EntriesOfRows(table, DOMAIN table)

InitLoaded ==
  /\ stationNeeds \in Needs
  /\ \E profileOf \in [EmployeeIds -> Profiles] :
       /\ \A id \in EmployeeIds : profileOf[id] \in ProfilesOf(id)
       /\ LET stored == StoredTables(stationNeeds, Ledger(profileOf), EarlierRuns)
          IN /\ dailyAssignments = stored.daily
             /\ workHistory = stored.history
  /\ assignments = LoadTodayAssignments(dailyAssignments)
  /\ draggedEmployee = <<>>
  /\ warningDialog = <<>>
  /\ loading = FALSE
  /\ dragging = FALSE
  /\ lastCall = Call("mount", "done", <<>>, FALSE, NoToast)
  /\ ops = 0
  /\ faultBudget = MaxFaults

SpecLoaded == InitLoaded /\ [][Next]_vars

(***************************************************************************)
(* distributeEmployees step by step.  The function is async: it gives way  *)
(* at each await, and between two of its steps the page handles the events *)
(* of the operator.  A step here is the answer to one awaited request with *)
(* the code that runs on it up to the next await.  lastCall holds the call *)
(* in flight: its position (result) and its local variables.  One call of  *)
(* distributeEmployees is in flight at a time, no write fails, the workers *)
(* have no earlier history (no warning is due), and a move is one step.    *)
(***************************************************************************)
Run(position, selectedEmployees, flManual, completed, placements, written, toast) ==
  [handler |-> "distributeEmployees", result |-> position,
   selected |-> selectedEmployees, flManual |-> flManual,
   completed |-> completed, placements |-> placements, written |-> written,
   toast |-> toast]

RunAt(position) ==
  lastCall.handler = "distributeEmployees" /\ lastCall.result = position

InitSteps ==
  /\ dailyAssignments = NoRows
  /\ workHistory = Ledger([id \in EmployeeIds |-> NewWorker])
  /\ stationNeeds \in Needs
  /\ assignments = <<>>
  /\ draggedEmployee = <<>>
  /\ warningDialog = <<>>
  /\ loading = FALSE
  /\ dragging = FALSE
  /\ lastCall = Call("mount", "done", <<>>, FALSE, NoToast)
  /\ ops = 0
  /\ faultBudget = 0

\* The click on the button (disabled={loading || selectedEmployees.length
\* === 0}): setLoading(true), and the delete of today's rows is sent.
StartRun(selectedEmployees, flManual) ==
  /\ PageIdle
  /\ ~loading
  /\ lastCall.result = "done"
  /\ selectedEmployees # <<>>
  /\ ops < MaxOps
  /\ loading' = TRUE
  /\ lastCall' = Run("delete", selectedEmployees, flManual, <<>>, <<>>, 0, NoToast)
  /\ ops' = ops + 1
  /\ UNCHANGED <<dailyAssignments, workHistory, stationNeeds, assignments,
                 draggedEmployee, warningDialog, dragging, faultBudget>>

\* The delete is answered; Promise.all sends one lookup per selected employee.
DeleteResolves ==
  /\ RunAt("delete")
  /\ dailyAssignments' = DeleteAssignmentsOfDate(dailyAssignments, TRUE)
  /\ lastCall' = [lastCall EXCEPT !.result = "lookups"]
  /\ UNCHANGED <<workHistory, stationNeeds, assignments, draggedEmployee,
                 warningDialog, loading, dragging, ops, faultBudget>>

\* A faulty variant: the histories are taken in the order of their answers.
JoinInCompletionOrder(selectedEmployees, completed) == completed

\* Promise.all: the results in the order of the selection, whatever the order
\* of the answers.
JoinAll(selectedEmployees, completed) ==
  [i \in 1..Len(selectedEmployees) |->
     completed[CHOOSE k \in 1..Len(completed) :
                 completed[k].id = selectedEmployees[i]]]

\* The end of the function: FL's entry, setAssignments, setLoading(false),
\* the toast.
FinishRun(completed, placements) ==
  /\ assignments' = NewAssignments(placements) \o ManualEntry(lastCall.flManual)
  /\ loading' = FALSE
  /\ lastCall' = Run("done", lastCall.selected, lastCall.flManual, completed,
                     placements, 2 * Len(placements),
                     [title |-> "Fordelning klar!", variant |-> ""])

\* One lookup is answered, with the ledger as it then is.  On the last answer
\* Promise.all resolves: the stations are ranked and filled from the joined
\* histories and the first insert is sent, or, with nobody to place, the
\* function ends.
LookupResolves(employeeId) ==
  /\ RunAt("lookups")
  /\ employeeId \in Range(lastCall.selected)
  /\ \A k \in 1..Len(lastCall.completed) : lastCall.completed[k].id # employeeId
  /\ LET completed == Append(lastCall.completed,
                             [id |-> employeeId,
                              history |-> GetEmployeeHistory(workHistory, employeeId)])
     IN IF Len(completed) < Len(lastCall.selected)
        THEN /\ lastCall' = [lastCall EXCEPT !.completed = completed]
             /\ UNCHANGED <<assignments, loading>>
        ELSE LET placements == Placements(stationNeeds,
                                          JoinAll(lastCall.selected, completed))
             IN IF placements = <<>>
                THEN FinishRun(completed, placements)
                ELSE /\ lastCall' = [lastCall EXCEPT !.result = "inserts",
                                                     !.completed = completed,
                                                     !.placements = placements]
                     /\ UNCHANGED <<assignments, loading>>
  /\ UNCHANGED <<dailyAssignments, workHistory, stationNeeds, draggedEmployee,
                 warningDialog, dragging, ops, faultBudget>>

\* One insert is answered: for placement i first the row of daily_assignments,
\* then the row of work_history.  After the last one the function ends.
InsertResolves ==
  /\ RunAt("inserts")
  /\ LET k == lastCall.written + 1
         p == lastCall.placements[(k + 1) \div 2]
     IN /\ IF k % 2 = 1
           THEN /\ dailyAssignments' =
                     InsertRow(dailyAssignments,
                               AssignmentRow(p.employeeId, p.station, NULL), TRUE)
                /\ UNCHANGED workHistory
           ELSE /\ workHistory' =
                     InsertRow(workHistory,
                               HistoryRow(p.employeeId, p.station, NULL, Today), TRUE)
                /\ UNCHANGED dailyAssignments
        /\ IF k < 2 * Len(lastCall.placements)
           THEN /\ lastCall' = [lastCall EXCEPT !.written = k]
                /\ UNCHANGED <<assignments, loading>>
           ELSE FinishRun(lastCall.completed, lastCall.placements)
  /\ UNCHANGED <<stationNeeds, draggedEmployee, warningDialog, dragging, ops,
                 faultBudget>>

\* handleDragStart and handleDrop of a badge of the snapshot on screen; they
\* do not look at loading.
DragStartStep(assignment) ==
  /\ PageIdle
  /\ assignment \in Draggable(assignments)
  /\ draggedEmployee' = <<assignment>>
  /\ dragging' = TRUE
  /\ UNCHANGED <<dailyAssignments, workHistory, stationNeeds, assignments,
                 warningDialog, loading, lastCall, ops, faultBudget>>

DropStep(toStation, toLane) ==
  /\ dragging
  /\ [station |-> toStation, lane |-> toLane] \in DropTargets(assignments)
  /\ dragging' = FALSE
  /\ UNCHANGED <<stationNeeds, lastCall>>
  /\ IF SamePlace(draggedEmployee, toStation, toLane)
     THEN /\ draggedEmployee' = <<>>
          /\ UNCHANGED <<dailyAssignments, workHistory, assignments,
                         warningDialog, loading, ops, faultBudget>>
     ELSE /\ ~OveruseWarning(GetEmployeeHistory(workHistory,
                                                draggedEmployee[1].employeeId),
                             toStation)
          /\ ops < MaxOps
          /\ PerformMove(draggedEmployee[1], assignments, toStation, toLane,
                         [i \in 1..4 |-> TRUE])

NextSteps ==
  \/ \E selectedEmployees \in Selections, flManual \in Texts :
       StartRun(selectedEmployees, flManual)
  \/ DeleteResolves
  \/ \E employeeId \in EmployeeIds : LookupResolves(employeeId)
  \/ InsertResolves
  \/ \E assignment \in Range(assignments) : DragStartStep(assignment)
  \/ \E toStation \in StationSet, toLane \in {NULL} \cup (1..NumLanes) :
       DropStep(toStation, toLane)

SpecSteps == InitSteps /\ [][NextSteps]_vars

(***************************************************************************)
(* The first version of the component in DailyPlanning.tsx (lines 1-653).  *)
(* Its snapshot is a Record<string, string[]>: a function from some        *)
(* stations to lists of strings.  A cell is a worker identifier, a name,   *)
(* or "" for an empty position; Pack is shown as NumPositions positions.   *)
(* Rows have no lane.  The variable draggedEmployee holds the two cells    *)
(* draggedEmployee and draggedFrom.  In these behaviours the free text is  *)
(* left empty, no write fails but the insert of a row for an identifier    *)
(* that is no employee, which the store may reject, and the workers have   *)
(* no earlier history (no warning is due).                                 *)
(***************************************************************************)
NumPositions == 2

\* The names of the roster as the strings the snapshot cells are.
NameTexts == <<"A", "B", "C", "D">>

NameText(id) == NameTexts[PositionIn(WorkerIds, id)]

PositionStations == DOMAIN STATION_LANES

\* assignments[station] || []
CellsAt(snapshot, station) ==
  IF station \in DOMAIN snapshot THEN snapshot[station] ELSE <<>>

WithCells(snapshot, station, cells) ==
  [s \in DOMAIN snapshot \cup {station} |->
     IF s = station THEN cells ELSE snapshot[s]]

\* list.filter((id) => id !== employeeId)
Without(cells, employeeId) ==
  SelectSeq(cells, LAMBDA c : c # employeeId)

\* list[index] = value on a JavaScript array: the list grows to the index,
\* the positions in between stay empty.
SetCell(cells, index, value) ==
  [i \in 1..(IF index > Len(cells) THEN index ELSE Len(cells)) |->
     IF i = index THEN value
     ELSE IF i <= Len(cells) THEN cells[i] ELSE ""]

\* loadTodayAssignments (97-114): assignmentsMap[item.station].push(
\* item.employees.name) for each row of the date.
RECURSIVE PushNames(_, _)
PushNames(snapshot, entries) ==
  IF entries = <<>> THEN snapshot
  ELSE PushNames(WithCells(snapshot, Head(entries).station,
                           Append(CellsAt(snapshot, Head(entries).station),
                                  NameText(Head(entries).employeeId))),
                 Tail(entries))

LoadTodayAssignmentsMap(table) == PushNames(<<>>, LoadTodayAssignments(table))

\* newAssignments of distributeEmployees (170-227): an empty list for each
\* station with a need, then the identifiers pushed by the loop.
RECURSIVE PushIds(_, _)
PushIds(snapshot, placements) ==
  IF placements = <<>> THEN snapshot
  ELSE PushIds(WithCells(snapshot, Head(placements).station,
                         Append(CellsAt(snapshot, Head(placements).station),
                                Head(placements).employeeId)),
               Tail(placements))

NewAssignmentsMap(needs, placements) ==
  PushIds([s \in Range(SortedStations(needs)) |-> <<>>], placements)

NothingHeld == [employee |-> <<>>, from |-> <<>>]

InitMap ==
  /\ stationNeeds \in Needs
  /\ \E k \in 0..EarlierRuns :
       LET stored == StoredTables(stationNeeds,
                                  Ledger([id \in EmployeeIds |-> NewWorker]), k)
       IN /\ dailyAssignments = stored.daily
          /\ workHistory = stored.history
  /\ assignments = LoadTodayAssignmentsMap(dailyAssignments)
  /\ draggedEmployee = NothingHeld
  /\ warningDialog = <<>>
  /\ loading = FALSE
  /\ dragging = FALSE
  /\ lastCall = Call("mount", "done", <<>>, FALSE, NoToast)
  /\ ops = 0
  /\ faultBudget = 0

\* distributeEmployees (160-235).
DistributeEmployeesMap(selectedEmployees) ==
  /\ PageIdle
  /\ ~loading
  /\ IF Len(selectedEmployees) = 0
     THEN /\ lastCall' = Call("distributeEmployees", "rejected", selectedEmployees,
                              FALSE, [title |-> "Ingen vald", variant |-> "destructive"])
          /\ UNCHANGED <<dailyAssignments, workHistory, assignments, ops>>
     ELSE LET placements ==
                Placements(stationNeeds,
                           EmployeeHistories(selectedEmployees, workHistory))
              oks == [i \in 1..(1 + 2 * Len(placements)) |-> TRUE]
          IN /\ ops < MaxOps
             /\ dailyAssignments' = InsertAssignments(NoRows, placements, 1, oks)
             /\ workHistory' = InsertHistories(workHistory, placements, 1, oks)
             /\ assignments' = NewAssignmentsMap(stationNeeds, placements)
             /\ lastCall' = Call("distributeEmployees", "done", selectedEmployees,
                                 TRUE, [title |-> "Fordelning klar!", variant |-> ""])
             /\ ops' = ops + 1
  /\ UNCHANGED <<stationNeeds, draggedEmployee, warningDialog, loading, dragging,
                 faultBudget>>

\* The cards on the page: none while the snapshot has no key; FL's always,
\* another station's when its list is not empty (539).
CardShownMap(snapshot, station) ==
  /\ DOMAIN snapshot # {}
  /\ station = "FL" \/ Len(CellsAt(snapshot, station)) > 0

\* The cells that can be dragged: the filled ones among the positions of a
\* station with positions, every cell of a plain station; FL has none.
DraggableCells(snapshot) ==
  {d \in [id : UNION {Range(CellsAt(snapshot, s)) : s \in StationSet},
          fromStation : StationSet \ {"FL"}] :
     /\ CardShownMap(snapshot, d.fromStation)
     /\ \E i \in 1..Len(CellsAt(snapshot, d.fromStation)) :
          /\ CellsAt(snapshot, d.fromStation)[i] = d.id
          /\ d.fromStation \in PositionStations => (i <= NumPositions /\ d.id # "")}

\* handleDragStart(employeeId, fromStation) (241-244).
HandleDragStartMap(employeeId, fromStation) ==
  /\ PageIdle
  /\ [id |-> employeeId, fromStation |-> fromStation] \in DraggableCells(assignments)
  /\ draggedEmployee' = [employee |-> <<[id |-> employeeId,
                                         fromStation |-> fromStation]>>,
                         from |-> <<fromStation>>]
  /\ dragging' = TRUE
  /\ lastCall' = Call("handleDragStart", "done", <<>>, FALSE, NoToast)
  /\ UNCHANGED <<dailyAssignments, workHistory, stationNeeds, assignments,
                 warningDialog, loading, ops, faultBudget>>

\* performMove(toStation) (277-327).  okInsert is the outcome of the two
\* inserts: the store may reject a row whose employee_id is no employee.
PerformMoveMap(dragged, toStation, okInsert) ==
  /\ assignments' =
       LET removed == WithCells(assignments, dragged.fromStation,
                                Without(assignments[dragged.fromStation], dragged.id))
       IN WithCells(removed, toStation,
                    Append(CellsAt(removed, toStation), dragged.id))
  /\ dailyAssignments' =
       InsertRow(DeleteAssignment(dailyAssignments, dragged.id,
                                  dragged.fromStation, TRUE),
                 AssignmentRow(dragged.id, toStation, NULL), okInsert)
  /\ workHistory' =
       InsertRow(DeleteHistory(workHistory, dragged.id, dragged.fromStation, TRUE),
                 HistoryRow(dragged.id, toStation, NULL, Today), okInsert)
  /\ draggedEmployee' = [draggedEmployee EXCEPT !.employee = <<>>]
  /\ warningDialog' = <<>>
  /\ loading' = FALSE
  /\ ops' = ops + 1

\* handleDrop(toStation) (250-275), on the card of a station.
HandleDropMap(toStation) ==
  /\ dragging
  /\ CardShownMap(assignments, toStation)
  /\ dragging' = FALSE
  /\ UNCHANGED <<stationNeeds, faultBudget>>
  /\ IF \/ draggedEmployee.employee = <<>>
        \/ draggedEmployee.employee[1].fromStation = toStation
     THEN /\ draggedEmployee' = [draggedEmployee EXCEPT !.employee = <<>>]
          /\ lastCall' = Call("handleDrop", "noop", <<>>, FALSE, NoToast)
          /\ UNCHANGED <<dailyAssignments, workHistory, assignments,
                         warningDialog, loading, ops>>
     ELSE /\ ~OveruseWarning(GetEmployeeHistory(workHistory,
                                                draggedEmployee.employee[1].id),
                             toStation)
          /\ ops < MaxOps
          /\ \E okInsert \in BOOLEAN :
               /\ draggedEmployee.employee[1].id \in EmployeeIds => okInsert
               /\ PerformMoveMap(draggedEmployee.employee[1], toStation, okInsert)
          /\ lastCall' = Call("handleDrop", "moved", <<>>, TRUE, Moved)

\* handleDropOnPackPosition(station, targetIdx) (335-367), on one of the
\* positions of a station that has them; position 1 is index 0.
HandleDropOnPackPosition(station, targetIdx) ==
  /\ dragging
  /\ station \in PositionStations
  /\ CardShownMap(assignments, station)
  /\ targetIdx \in 1..NumPositions
  /\ dragging' = FALSE
  /\ UNCHANGED <<dailyAssignments, workHistory, stationNeeds, warningDialog,
                 loading, faultBudget>>
  /\ IF draggedEmployee.employee = <<>> \/ draggedEmployee.from = <<>>
     THEN /\ lastCall' = Call("handleDropOnPackPosition", "noop", <<>>, FALSE, NoToast)
          /\ UNCHANGED <<assignments, draggedEmployee, ops>>
     ELSE LET id == draggedEmployee.employee[1].id
              draggedFrom == draggedEmployee.from[1]
              cells == assignments[draggedFrom]
              removed ==
                IF draggedFrom = station
                THEN WithCells(assignments, draggedFrom,
                               IF PositionIn(cells, id) # 0
                               THEN SetCell(cells, PositionIn(cells, id), "")
                               ELSE cells)
                ELSE WithCells(assignments, draggedFrom, Without(cells, id))
          IN /\ ops < MaxOps
             /\ assignments' = WithCells(removed, station,
                                         SetCell(CellsAt(removed, station),
                                                 targetIdx, id))
             /\ draggedEmployee' = NothingHeld
             /\ ops' = ops + 1
             /\ lastCall' = Call("handleDropOnPackPosition", "moved", <<>>,
                                 FALSE, NoToast)

NextMap ==
  \/ \E selectedEmployees \in Selections : DistributeEmployeesMap(selectedEmployees)
  \/ \E employeeId \in EmployeeIds \cup Range(NameTexts), fromStation \in StationSet :
       HandleDragStartMap(employeeId, fromStation)
  \/ \E toStation \in StationSet : HandleDropMap(toStation)
  \/ \E station \in StationSet, targetIdx \in 1..NumPositions :
       HandleDropOnPackPosition(station, targetIdx)

SpecMap == InitMap /\ [][NextMap]_vars

(***************************************************************************)
(* Properties.                                                             *)
(***************************************************************************)
Lanes == {NULL} \cup (1..NumLanes)

\* No write has failed so far: every run and move up to here is complete.
AllWritesDone == faultBudget = MaxFaults

\* The last handler call was a distribute run that went past its validation.
DistributeDone ==
  lastCall.handler = "distributeEmployees" /\ lastCall.result = "done"

\* The entries of a snapshot that stand for workers of the roster.
WorkerEntries(snapshot) ==
  {i \in 1..Len(snapshot) : snapshot[i].employeeId \in EmployeeIds}

WorkersAt(snapshot, station) ==
  Cardinality({i \in WorkerEntries(snapshot) : snapshot[i].station = station})

EntriesOf(snapshot, w) ==
  Cardinality({i \in 1..Len(snapshot) : snapshot[i].employeeId = w})

\* The rows of worker w in a table.
RowsOfWorker(table, w) ==
  CountRows(table, {r \in DOMAIN table : r.employee_id = w})

\* The entry that the move of this step takes away: the dragged one, or the
\* one the open dialog holds.
MoveSource ==
  IF warningDialog # <<>> THEN warningDialog[1].onConfirm.draggedEmployee
                          ELSE draggedEmployee[1]

\* C1: after any sequence of completed distribute runs and moves (plain or
\* confirmed) on the date, every worker of the roster has at most one row in
\* daily_assignments for the date.  FL's free text has no row at all.
C1_OneRowPerWorker ==
  AllWritesDone =>
    \A w \in EmployeeIds : RowsOfWorker(dailyAssignments, w) <= 1

\* C1's case: a third completed call, a move, with every worker in the table.
C1_Witness ==
  /\ AllWritesDone
  /\ lastCall.result = "moved"
  /\ ops = MaxOps
  /\ \A w \in EmployeeIds : RowsOfWorker(dailyAssignments, w) = 1

\* C2: after any sequence of completed distribute runs and moves on the date,
\* a repeated run included, today's work_history rows are exactly the
\* daily_assignments rows: the same worker, station and lane, as many times.
C2_HistoryMirrorsAssignments ==
  AllWritesDone =>
    \A w \in EmployeeIds, s \in StationSet, l \in Lanes :
      CopiesIn(HistoryRow(w, s, l, Today), workHistory)
        = CopiesIn(AssignmentRow(w, s, l), dailyAssignments)

\* C3: for every station s, a distribute run places at most needed(s) workers
\* at s, whatever the selection, the needs and the histories.
C3_AtMostNeeded ==
  DistributeDone =>
    \A s \in StationSet : WorkersAt(assignments, s) <= NeedOf(stationNeeds, s)

\* C3's case: the whole roster is selected and a station that needs one worker
\* got one while somebody stayed unplaced.
C3_Witness ==
  /\ DistributeDone
  /\ Len(lastCall.selected) = NumWorkers
  /\ Cardinality(WorkerEntries(assignments)) < NumWorkers
  /\ \E s \in StationSet :
       NeedOf(stationNeeds, s) = 1 /\ WorkersAt(assignments, s) = 1

\* C4: in one distribute run no worker is placed at two stations: a worker's
\* identifier occurs in at most one entry of the resulting snapshot.
C4_OnePlacementPerWorker ==
  DistributeDone => \A w \in EmployeeIds : EntriesOf(assignments, w) <= 1

\* C4's case: a run that filled two stations.
C4_Witness ==
  /\ DistributeDone
  /\ Cardinality({assignments[i].station : i \in WorkerEntries(assignments)}) = 2

\* C5: distributeEmployees called with an empty selection changes neither
\* daily_assignments, nor work_history, nor the snapshot, and reports a
\* validation error.
C5_EmptySelectionRejected ==
  [][\A flManual \in Texts :
       DistributeEmployees(<<>>, flManual)
       => /\ UNCHANGED <<dailyAssignments, workHistory, assignments>>
          /\ lastCall'.result = "rejected"
          /\ lastCall'.toast.variant = "destructive"]_vars

\* C5's case: the call was rejected on a page that has rows and a snapshot.
C5_Witness ==
  /\ lastCall.handler = "distributeEmployees"
  /\ lastCall.result = "rejected"
  /\ dailyAssignments # NoRows
  /\ assignments # <<>>

\* C6: a move is atomic: after it either the change of daily_assignments and
\* the change of work_history are both applied in full, or neither table has
\* changed.
C6_MoveIsAtomic ==
  [][lastCall'.result = "moved"
     => LET from == MoveSource
            to == assignments'[Len(assignments')]
        IN \/ /\ dailyAssignments' =
                   InsertRow(DeleteAssignment(dailyAssignments, from.employeeId,
                                              from.station, TRUE),
                             AssignmentRow(from.employeeId, to.station, to.lane),
                             TRUE)
              /\ workHistory' =
                   InsertRow(DeleteHistory(workHistory, from.employeeId,
                                           from.station, TRUE),
                             HistoryRow(from.employeeId, to.station, to.lane, Today),
                             TRUE)
           \/ UNCHANGED <<dailyAssignments, workHistory>>]_vars

\* C7: a drop on the station and lane the badge was dragged from is a no-op:
\* the snapshot and both tables are unchanged, no write is issued, the history
\* is not looked up and no warning is shown.
C7_SamePlaceDropIsNoOp ==
  [][\A toStation \in StationSet, toLane \in Lanes :
       (/\ HandleDrop(toStation, toLane)
        /\ draggedEmployee # <<>>
        /\ draggedEmployee[1].station = toStation
        /\ draggedEmployee[1].lane = toLane)
       => /\ UNCHANGED <<dailyAssignments, workHistory, assignments,
                         warningDialog, ops>>
          /\ ~lastCall'.fetched]_vars

\* C7's case: a drop ended as a no-op on a page where a badge is in a lane.
C7_Witness ==
  /\ lastCall.handler = "handleDrop"
  /\ lastCall.result = "noop"
  /\ \E i \in WorkerEntries(assignments) : assignments[i].lane # NULL

\* C8: after a completed move of worker w from (A, laneA) to another place
\* (B, laneB), whatever runs and moves came before, today's work_history has
\* no row for (w, A, laneA) and exactly one row for (w, B, laneB).
C8_LedgerAfterMove ==
  [][(lastCall'.result = "moved" /\ AllWritesDone')
     => LET from == MoveSource
            to == assignments'[Len(assignments')]
        IN /\ CopiesIn(HistoryRow(from.employeeId, from.station, from.lane, Today),
                       workHistory') = 0
           /\ CopiesIn(HistoryRow(from.employeeId, to.station, to.lane, Today),
                       workHistory') = 1]_vars

\* The worker's visits of a station inside the six-month window, the stations
\* visited at all, and the claim's test on them, in integers:
\* count > 1.5 * total / k  iff  2 * k * count > 3 * total, and avg = 0 when
\* no station was visited.
VisitCount(w, s) ==
  CountRows(workHistory, {r \in DOMAIN workHistory :
                            /\ r.employee_id = w
                            /\ r.station = s
                            /\ r.work_date >= SixMonthsAgo})

Visited(w) == {s \in StationSet : VisitCount(w, s) > 0}

Overused(w, s) ==
  LET count == VisitCount(w, s)
      k == Cardinality(Visited(w))
      total == SumOver([x \in Visited(w) |-> VisitCount(w, x)], Visited(w))
  IN /\ count > 5
     /\ IF k = 0 THEN count > 0 ELSE 2 * k * count > 3 * total

\* C9: a drop of worker w's badge on another place at station s shows the
\* warning exactly when count > 1.5 * avg and count > 5, count being w's
\* visits of s and avg the mean of w's non-zero counts; in every other case
\* the move is applied and no warning is shown.
C9_WarnsExactlyWhenOverused ==
  [][\A toStation \in StationSet, toLane \in Lanes :
       (/\ HandleDrop(toStation, toLane)
        /\ draggedEmployee # <<>>
        /\ ~(draggedEmployee[1].station = toStation
             /\ draggedEmployee[1].lane = toLane))
       => IF Overused(draggedEmployee[1].employeeId, toStation)
          THEN /\ lastCall'.result = "warn"
               /\ warningDialog' # <<>>
               /\ warningDialog'[1].toStation = toStation
               /\ UNCHANGED assignments
          ELSE /\ lastCall'.result = "moved"
               /\ warningDialog' = <<>>
               /\ assignments'[Len(assignments')] =
                    Assignment(draggedEmployee[1].employeeId,
                               draggedEmployee[1].employeeName,
                               toStation, toLane)]_vars

\* C9's case: the warning is open for a move to Plock of the worker whose
\* history is {Plock: 10, Pack: 2, KM: 1}.
C9_Witness ==
  /\ warningDialog # <<>>
  /\ warningDialog[1].toStation = "Plock"
  /\ warningDialog[1].onConfirm.draggedEmployee.employeeId = "w1"
  /\ VisitCount("w1", "Plock") = 10
  /\ VisitCount("w1", "Pack") = 2
  /\ VisitCount("w1", "KM") = 1

\* C10: a warned move is held: the step that opens the warning changes no
\* table and no snapshot entry, while the warning is open only the confirm
\* changes them, and a cancel closes the warning with the tables and the
\* snapshot as they were when the move was proposed.
C10_WarnedMoveIsHeld ==
  [][/\ (warningDialog = <<>> /\ warningDialog' # <<>>)
          => UNCHANGED <<dailyAssignments, workHistory, assignments>>
     /\ (warningDialog # <<>> /\ ~ConfirmMove)
          => UNCHANGED <<dailyAssignments, workHistory, assignments>>
     /\ CancelMove
          => /\ UNCHANGED <<dailyAssignments, workHistory, assignments>>
             /\ assignments' = warningDialog[1].onConfirm.assignments
             /\ warningDialog' = <<>>]_vars

\* C10's case: a warning was cancelled.
C10_Witness ==
  /\ lastCall.handler = "onCancel"
  /\ warningDialog = <<>>
  /\ assignments # <<>>

\* The move held by the open warning: the entry taken away and the place it
\* goes to.
Proposal ==
  [from |-> warningDialog[1].onConfirm.draggedEmployee,
   toStation |-> warningDialog[1].onConfirm.toStation,
   toLane |-> warningDialog[1].onConfirm.toLane]

\* The rows of the workers other than w, and w's rows of other dates, are
\* the same in both tables.
OthersUntouched(w, before, after) ==
  \A r \in DOMAIN before \cup DOMAIN after :
    (r.employee_id # w \/ ("work_date" \in DOMAIN r /\ r.work_date # Today))
    => CopiesIn(r, before) = CopiesIn(r, after)

\* C11: confirmation always overrides the warning.  The warning holds exactly
\* the move that was proposed (the dragged entry, the drop's station and lane);
\* an open warning can always be confirmed; and the confirmation, its writes
\* done, applies that move: the snapshot loses the source entry and gains the
\* destination entry, daily_assignments has the worker's single row at the
\* destination, work_history has no row of today for the source place and has
\* a row for the destination, and nothing else changes.
C11_ConfirmAppliesProposedMove ==
  [][/\ \A toStation \in StationSet, toLane \in Lanes :
          (HandleDrop(toStation, toLane) /\ warningDialog' # <<>>)
          => Proposal' = [from |-> draggedEmployee[1],
                          toStation |-> toStation, toLane |-> toLane]
     /\ (warningDialog # <<>> /\ ops < MaxOps) => ENABLED ConfirmMove
     /\ (ConfirmMove /\ AllWritesDone')
          => LET p == Proposal
                 w == p.from.employeeId
             IN /\ assignments' =
                     SelectSeq(assignments, LAMBDA a : a # p.from)
                     \o <<Assignment(w, p.from.employeeName, p.toStation, p.toLane)>>
                /\ RowsOfWorker(dailyAssignments', w) = 1
                /\ CopiesIn(AssignmentRow(w, p.toStation, p.toLane),
                            dailyAssignments') = 1
                /\ OthersUntouched(w, dailyAssignments, dailyAssignments')
                /\ CopiesIn(HistoryRow(w, p.from.station, p.from.lane, Today),
                            workHistory') = 0
                /\ CopiesIn(HistoryRow(w, p.toStation, p.toLane, Today),
                            workHistory') >= 1
                /\ OthersUntouched(w, workHistory, workHistory')
                /\ warningDialog' = <<>>]_vars

\* C11's case: a warned move into a lane was confirmed, every write done.
C11_Witness ==
  /\ lastCall.handler = "onConfirm"
  /\ AllWritesDone
  /\ assignments[Len(assignments)].lane # NULL

\* The place of a station in the station list.
StationIndex(s) == CHOOSE i \in 1..Len(STATIONS) : STATIONS[i] = s

\* Station t is filled after station s: its need is smaller, or the same with
\* t later in the station list.
FilledAfter(s, t) ==
  \/ NeedOf(stationNeeds, t) < NeedOf(stationNeeds, s)
  \/ /\ NeedOf(stationNeeds, t) = NeedOf(stationNeeds, s)
     /\ StationIndex(t) > StationIndex(s)

\* C14: a distribute run fills the stations in descending order of need, equal
\* needs in station-list order, and skips stations without a need: a station
\* with need <= 0 gets nobody, and when a station with a positive need gets
\* fewer workers than it needs, every station filled after it gets nobody.
C14_DescendingNeedOrder ==
  DistributeDone =>
    /\ \A s \in StationSet :
         NeedOf(stationNeeds, s) <= 0 => WorkersAt(assignments, s) = 0
    /\ \A s, t \in StationSet :
         (/\ NeedOf(stationNeeds, s) > 0
          /\ WorkersAt(assignments, s) < NeedOf(stationNeeds, s)
          /\ FilledAfter(s, t))
         => WorkersAt(assignments, t) = 0

\* C14's case: Pack needs two and Plock, earlier in the list, needs one; the
\* only selected worker went to Pack and Plock starved.
C14_Witness ==
  /\ DistributeDone
  /\ NeedOf(stationNeeds, "Pack") = 2
  /\ NeedOf(stationNeeds, "Plock") = 1
  /\ Len(lastCall.selected) = 1
  /\ WorkersAt(assignments, "Pack") = 1
  /\ WorkersAt(assignments, "Plock") = 0

\* The stations of worker w's ledger rows of the latest day before today.
PriorStations(w) ==
  LET prior == {r \in DOMAIN workHistory :
                  r.employee_id = w /\ r.work_date < Today}
      latest == {r \in prior : \A q \in prior : q.work_date <= r.work_date}
  IN {r.station : r \in latest}

\* C15: the rotation constraint holds for placements: no worker stands, after
\* a distribute run or a move, at the station that was the worker's last one
\* (the only station of the worker's latest day before today).
C15_NoImmediateRepeat ==
  \A i \in WorkerEntries(assignments) :
    PriorStations(assignments[i].employeeId) # {assignments[i].station}

\* C16: partial completion is surfaced: a move or a distribute run of which
\* one write failed and another took effect does not report success, does not
\* install its new snapshot, and ends in an outcome of its own.
C16_PartialWriteSurfaced ==
  [][(/\ faultBudget' < faultBudget
      /\ <<dailyAssignments, workHistory>>' # <<dailyAssignments, workHistory>>)
     => /\ lastCall'.toast.variant = "destructive"
        /\ lastCall'.result \notin {"done", "moved"}
        /\ assignments' = assignments]_vars

\* C17: a worker with no ledger row in the window never triggers the warning:
\* a drop of that worker's badge on another place, whatever the station, is
\* applied at once, with no warning left open and no error reported.
C17_NoHistoryNeverWarns ==
  [][\A toStation \in StationSet, toLane \in Lanes :
       (/\ HandleDrop(toStation, toLane)
        /\ draggedEmployee # <<>>
        /\ ~(draggedEmployee[1].station = toStation
             /\ draggedEmployee[1].lane = toLane)
        /\ Visited(draggedEmployee[1].employeeId) = {})
       => /\ lastCall'.result = "moved"
          /\ lastCall'.toast.variant # "destructive"
          /\ warningDialog' = <<>>
          /\ assignments'[Len(assignments')] =
               Assignment(draggedEmployee[1].employeeId,
                          draggedEmployee[1].employeeName, toStation, toLane)]_vars

\* C17's case: the badge of a worker without any ledger row in the window is
\* being dragged, and another place can take the drop.
C17_Witness ==
  /\ dragging
  /\ draggedEmployee # <<>>
  /\ Visited(draggedEmployee[1].employeeId) = {}
  /\ ops < MaxOps
  /\ \E t \in DropTargets(assignments) :
       ~(t.station = draggedEmployee[1].station /\ t.lane = draggedEmployee[1].lane)

\* The position of w's entry in a snapshot (0 when w has none).
EntryIndex(snapshot, w) ==
  IF \E i \in 1..Len(snapshot) : snapshot[i].employeeId = w
  THEN CHOOSE i \in 1..Len(snapshot) : snapshot[i].employeeId = w
  ELSE 0

\* C18: a distribute run takes, for each station, the workers of the pool with
\* the fewest visits of that station in the ledger as it is when the run
\* starts, ties in selection order: a worker placed at s has at most as many
\* visits of s as every selected worker who is placed later or not at all, and
\* on equal counts was selected earlier.
C18_LeastVisitsFirst ==
  [][(/\ lastCall'.handler = "distributeEmployees"
      /\ lastCall'.result = "done"
      /\ ops' = ops + 1)
     => \A i \in WorkerEntries(assignments') :
          \A q \in Range(lastCall'.selected) :
            LET p == assignments'[i].employeeId
                s == assignments'[i].station
                j == EntryIndex(assignments', q)
            IN (j = 0 \/ j > i)
               => /\ VisitCount(p, s) <= VisitCount(q, s)
                  /\ VisitCount(p, s) = VisitCount(q, s)
                     => PositionIn(lastCall'.selected, p)
                          < PositionIn(lastCall'.selected, q)]_vars

\* C18's case: the first run of the day, both workers selected and one place
\* to fill; the worker selected second took it, the worker selected first has
\* visits of that station and stays without a place.
C18_Witness ==
  /\ DistributeDone
  /\ AllWritesDone
  /\ ops = 1
  /\ lastCall.selected = <<employees[1].id, employees[2].id>>
  /\ WorkerEntries(assignments) = {1}
  /\ assignments[1].employeeId = employees[2].id
  /\ VisitCount(employees[1].id, assignments[1].station) > 0

\* The daily_assignments row that stands for entry i of a snapshot.
RowOfEntry(snapshot, i) ==
  AssignmentRow(snapshot[i].employeeId, snapshot[i].station, snapshot[i].lane)

\* C20: a distribute run whose writes all succeed replaces the rows of the
\* date: afterwards daily_assignments holds one row per placement of this run
\* and no other row, whatever earlier runs and moves, failed ones included,
\* had left there.
C20_RunReplacesRows ==
  [][(/\ lastCall'.handler = "distributeEmployees"
      /\ lastCall'.result = "done"
      /\ ops' = ops + 1
      /\ faultBudget' = faultBudget)
     => /\ \A i \in WorkerEntries(assignments') :
             /\ assignments'[i].lane = NULL
             /\ CopiesIn(RowOfEntry(assignments', i), dailyAssignments') = 1
        /\ BagCardinality(dailyAssignments')
             = Cardinality(WorkerEntries(assignments'))]_vars

\* C20's case: a run with no failed write that came after a move into a lane,
\* of which the ledger still has the row; the table holds this run's rows.
C20_Witness ==
  /\ DistributeDone
  /\ AllWritesDone
  /\ ops >= 2
  /\ \E r \in DOMAIN workHistory : r.work_date = Today /\ r.lane # NULL
  /\ WorkerEntries(assignments) # {}
  /\ BagCardinality(dailyAssignments) = Cardinality(WorkerEntries(assignments))

\* The sum of the positive needs of the stations other than FL.
NeedsSum ==
  LET S == {s \in StationSet \ {"FL"} : NeedOf(stationNeeds, s) > 0}
  IN SumOver([s \in S |-> NeedOf(stationNeeds, s)], S)

\* C26: a distribute run on a non-empty selection places as many workers as
\* the smaller of the number selected and the sum of the positive needs of the
\* stations other than FL; each of them once, every other selected worker
\* nowhere, and the run ends with its success message.
C26_PlacesMinOfPoolAndNeeds ==
  DistributeDone =>
    LET placed == {w \in EmployeeIds : EntriesOf(assignments, w) > 0}
        pool == Len(lastCall.selected)
    IN /\ Cardinality(placed) = (IF pool < NeedsSum THEN pool ELSE NeedsSum)
       /\ Cardinality(WorkerEntries(assignments)) = Cardinality(placed)
       /\ placed \subseteq Range(lastCall.selected)
       /\ lastCall.toast.variant # "destructive"

\* C26's case: two workers selected, one place needed in all; one worker is
\* placed, the other one is in no station, and the run ended as a success.
C26_Witness ==
  /\ DistributeDone
  /\ Len(lastCall.selected) = 2
  /\ NeedsSum = 1
  /\ Cardinality(WorkerEntries(assignments)) = 1
  /\ lastCall.toast.title = "Fordelning klar!"

\* C27: a worker whose ledger rows in the window are all at one station, or
\* who has none, is never warned about: a drop of that worker's badge on
\* another place is applied at once, whatever the station and however many
\* the visits of it.
C27_OneStationNeverWarns ==
  [][(/\ dragging
      /\ draggedEmployee # <<>>
      /\ lastCall'.handler = "handleDrop"
      /\ lastCall'.result # "noop"
      /\ Cardinality(Visited(draggedEmployee[1].employeeId)) <= 1)
     => /\ lastCall'.result = "moved"
        /\ warningDialog' = <<>>
        /\ assignments'[Len(assignments')].employeeId = draggedEmployee[1].employeeId
        /\ assignments' # assignments]_vars

\* C27's case: a drop moved a worker to KM without a warning; all the
\* worker's rows in the window are at KM, more than the floor of the warning
\* even before the move.
C27_Witness ==
  /\ lastCall.handler = "handleDrop"
  /\ lastCall.result = "moved"
  /\ assignments[Len(assignments)].employeeId = employees[1].id
  /\ assignments[Len(assignments)].station = "KM"
  /\ Visited(employees[1].id) = {"KM"}
  /\ VisitCount(employees[1].id, "KM") > OveruseFloor + 2

\* The entry that the move of this step adds: the last one of the new
\* snapshot.
MoveTarget == assignments'[Len(assignments')]

\* The step is a move, plain or confirmed, and none of its four writes fails.
CompleteMoveStep ==
  /\ lastCall'.result = "moved"
  /\ ops' = ops + 1
  /\ faultBudget' = faultBudget

\* 1 when the two rows are the same row, 0 otherwise.
Same(r, q) == IF r = q THEN 1 ELSE 0

\* C21: a move whose writes all succeed takes exactly one entry matching
\* (w, A, laneA) away and adds exactly one entry (w, B, laneB), in the snapshot
\* and in daily_assignments: the row of the source lane goes and no other row,
\* not even a row of w at the same station in another lane, and the rows and
\* entries already in the destination lane stay.
C21_MoveTakesOneAddsOne ==
  [][(/\ CompleteMoveStep
      /\ CopiesIn(AssignmentRow(MoveSource.employeeId, MoveSource.station,
                                MoveSource.lane), dailyAssignments) = 1)
     => LET from == AssignmentRow(MoveSource.employeeId, MoveSource.station,
                                  MoveSource.lane)
            to == AssignmentRow(MoveTarget.employeeId, MoveTarget.station,
                                MoveTarget.lane)
        IN /\ MoveTarget.employeeId = MoveSource.employeeId
           /\ \A r \in DOMAIN dailyAssignments \cup DOMAIN dailyAssignments' :
                CopiesIn(r, dailyAssignments')
                  = CopiesIn(r, dailyAssignments) - Same(r, from) + Same(r, to)
           /\ \A i \in 1..(Len(assignments') - 1) :
                assignments'[i] \in Range(assignments)]_vars

\* C29: moves round-trip.  After a complete move of w from (A, laneA) to
\* (B, laneB), on a day on which no write has failed, the complete move of w
\* back to (A, laneA), where the page offers it, gives the entries of the
\* snapshot, the rows of daily_assignments and the rows of work_history that
\* there were before the first move.
C29_MoveBackRestores ==
  [][(/\ CompleteMoveStep
      /\ AllWritesDone'
      /\ MoveTarget \in Draggable(assignments')
      /\ [station |-> MoveSource.station, lane |-> MoveSource.lane]
           \in DropTargets(assignments'))
     => /\ Range(UpdatedAssignments(assignments', MoveTarget,
                                    MoveSource.station, MoveSource.lane))
             = Range(assignments)
        /\ MovedRows(dailyAssignments', MoveTarget,
                     MoveSource.station, MoveSource.lane) = dailyAssignments
        /\ MovedLedger(workHistory', MoveTarget,
                       MoveSource.station, MoveSource.lane) = workHistory]_vars

(***************************************************************************)
(* The planner on needs loaded from the store.  loadTodayNeeds copies      *)
(* every station_needs row of the day into stationNeeds, a row for FL      *)
(* included, so that FL can carry a need although its field in the form is *)
(* disabled.                                                               *)
(***************************************************************************)
\* The runs of a day that is planned from loaded needs.
MaxRuns == 1

LoadedNeeds == {needs \in [StationSet -> 0..MaxNeed] : needs["FL"] > 0}

InitPlanner ==
  /\ dailyAssignments = NoRows
  /\ \E profileOf \in [EmployeeIds -> Profiles] :
       /\ \A id \in EmployeeIds : profileOf[id] \in ProfilesOf(id)
       /\ workHistory = Ledger(profileOf)
  /\ stationNeeds \in LoadedNeeds
  /\ assignments = <<>>
  /\ draggedEmployee = <<>>
  /\ warningDialog = <<>>
  /\ loading = FALSE
  /\ dragging = FALSE
  /\ lastCall = Call("mount", "done", <<>>, FALSE, NoToast)
  /\ ops = 0
  /\ faultBudget = MaxFaults

NextPlanner ==
  /\ ops < MaxRuns
  /\ \E selectedEmployees \in Selections, flManual \in Texts :
       DistributeEmployees(selectedEmployees, flManual)

SpecPlanner == InitPlanner /\ [][NextPlanner]_vars

\* The entries of a snapshot at FL, and the texts with a character that is
\* not a blank.
EntriesAtFL(snapshot) == SelectSeq(snapshot, LAMBDA a : a.station = "FL")

HasInk(text) == \E k \in 1..Len(text) : text[k] # " "

\* C19 as stated: no selected worker is placed at FL whatever FL's need, and
\* the snapshot holds the manual text verbatim as FL's single entry whenever
\* the text is non-empty, text of blanks only included; empty text gives no
\* entry.
C19_AnyNonEmptyTextIsRecorded ==
  [][\A selectedEmployees \in Selections, flManual \in Texts :
       (DistributeEmployees(selectedEmployees, flManual) /\ selectedEmployees # <<>>)
       => /\ \A i \in WorkerEntries(assignments') : assignments'[i].station # "FL"
          /\ IF flManual # <<>>
             THEN /\ Len(EntriesAtFL(assignments')) = 1
                  /\ EntriesAtFL(assignments')[1].employeeName = flManual
             ELSE EntriesAtFL(assignments') = <<>>]_vars

\* C19, amended: no selected worker is placed at FL whatever FL's need; the
\* snapshot holds the manual text verbatim, blanks around it included, as FL's
\* single entry whenever the text has a character that is not a blank; empty
\* text and text of blanks only give no entry at FL.
C19_InkedTextIsRecordedVerbatim ==
  [][\A selectedEmployees \in Selections, flManual \in Texts :
       (DistributeEmployees(selectedEmployees, flManual) /\ selectedEmployees # <<>>)
       => /\ \A i \in WorkerEntries(assignments') : assignments'[i].station # "FL"
          /\ IF HasInk(flManual)
             THEN /\ Len(EntriesAtFL(assignments')) = 1
                  /\ EntriesAtFL(assignments')[1].employeeName = flManual
                  /\ EntriesAtFL(assignments')[1].employeeId \notin EmployeeIds
             ELSE EntriesAtFL(assignments') = <<>>]_vars

\* C19's case: FL carries a need, a selected worker was left without a place,
\* and the run recorded a text with a blank in front, blank included.
C19_Witness ==
  /\ DistributeDone
  /\ NeedOf(stationNeeds, "FL") > 0
  /\ Len(lastCall.selected) > Cardinality(WorkerEntries(assignments))
  /\ Len(EntriesAtFL(assignments)) = 1
  /\ EntriesAtFL(assignments)[1].employeeName = <<" ", "E">>

(***************************************************************************)
(* RotationGuard (utils/stationRotation).                                  *)
(* lastStationsMap is a Map<string, string | null>: a function from some    *)
(* worker identifiers to <<>> (null) or <<station>>.                        *)
(***************************************************************************)
\* A faulty variant: a worker the map does not hold is permitted nowhere.
CanAssignKnownOnly(employeeId, station, lastStationsMap) ==
  /\ employeeId \in DOMAIN lastStationsMap
  /\ lastStationsMap[employeeId] # <<station>>

\* canAssignToStation(employeeId, station, lastStationsMap)
CanAssignToStation(employeeId, station, lastStationsMap) ==
  ~(/\ employeeId \in DOMAIN lastStationsMap
    /\ lastStationsMap[employeeId] = <<station>>)

\* A faulty variant: the last station is dropped and the list comes back
\* from its end.
RECURSIVE GetAvailableStationsReversed(_, _, _)
GetAvailableStationsReversed(employeeId, allStations, lastStationsMap) ==
  IF allStations = <<>> THEN <<>>
  ELSE GetAvailableStationsReversed(employeeId, Tail(allStations), lastStationsMap)
       \o (IF CanAssignToStation(employeeId, Head(allStations), lastStationsMap)
           THEN <<Head(allStations)>> ELSE <<>>)

\* getAvailableStationsForEmployee(employeeId, allStations, lastStationsMap)
GetAvailableStationsForEmployee(employeeId, allStations, lastStationsMap) ==
  FilterIn(allStations,
           {s \in Range(allStations) :
              CanAssignToStation(employeeId, s, lastStationsMap)})

\* The arguments of the calls: a worker of the roster or one more, who is in
\* no map; a map over some of the roster; a list of distinct stations.
Callers == {WorkerIds[i] : i \in 1..(NumWorkers + 1)}

LastStationsMaps ==
  UNION {[D -> {<<>>} \cup {<<s>> : s \in StationSet}] : D \in SUBSET EmployeeIds}

StationLists == DistinctSeqs(StationSet)

\* The module has no state: the page stays as it is after mount, with nothing
\* loaded; a behaviour makes one call, and lastCall holds it with its result.
InitRotation ==
  /\ dailyAssignments = NoRows
  /\ workHistory = NoRows
  /\ stationNeeds = [s \in Range(StationsToFill) |-> 0]
  /\ assignments = <<>>
  /\ draggedEmployee = <<>>
  /\ warningDialog = <<>>
  /\ loading = FALSE
  /\ dragging = FALSE
  /\ lastCall = Call("mount", "done", <<>>, FALSE, NoToast)
  /\ ops = 0
  /\ faultBudget = 0

CanAssignCall(employeeId, station, lastStationsMap) ==
  /\ lastCall.handler = "mount"
  /\ lastCall' = [handler |-> "canAssignToStation",
                  employeeId |-> employeeId,
                  station |-> station,
                  lastStationsMap |-> lastStationsMap,
                  result |-> CanAssignToStation(employeeId, station, lastStationsMap)]
  /\ UNCHANGED <<dailyAssignments, workHistory, stationNeeds, assignments,
                 draggedEmployee, warningDialog, loading, dragging, ops,
                 faultBudget>>

AvailableStationsCall(employeeId, allStations, lastStationsMap) ==
  /\ lastCall.handler = "mount"
  /\ lastCall' = [handler |-> "getAvailableStationsForEmployee",
                  employeeId |-> employeeId,
                  allStations |-> allStations,
                  lastStationsMap |-> lastStationsMap,
                  result |-> GetAvailableStationsForEmployee(
                               employeeId, allStations, lastStationsMap)]
  /\ UNCHANGED <<dailyAssignments, workHistory, stationNeeds, assignments,
                 draggedEmployee, warningDialog, loading, dragging, ops,
                 faultBudget>>

NextRotation ==
  \/ \E employeeId \in Callers, station \in StationSet,
        lastStationsMap \in LastStationsMaps :
       CanAssignCall(employeeId, station, lastStationsMap)
  \/ \E employeeId \in Callers, allStations \in StationLists,
        lastStationsMap \in LastStationsMaps :
       AvailableStationsCall(employeeId, allStations, lastStationsMap)

SpecRotation == InitRotation /\ [][NextRotation]_vars

\* Two maps say the same about worker w.
SameEntryFor(w, m1, m2) ==
  /\ w \in DOMAIN m1 <=> w \in DOMAIN m2
  /\ w \in DOMAIN m1 => m1[w] = m2[w]

\* C12: canAssign(w, s, lastStationOf) is false exactly when lastStationOf[w]
\* is s; it is true for a worker whose last station is null and for a worker
\* absent from the map; and it is the same for every map that says the same
\* about w, whatever it says about other workers.
C12_CanAssignExactlyWhenNotLast ==
  lastCall.handler = "canAssignToStation" =>
    LET w == lastCall.employeeId
        s == lastCall.station
        m == lastCall.lastStationsMap
    IN /\ lastCall.result = FALSE <=> (w \in DOMAIN m /\ m[w] = <<s>>)
       /\ (w \notin DOMAIN m \/ m[w] = <<>>) => lastCall.result = TRUE
       /\ \A m2 \in LastStationsMaps :
            SameEntryFor(w, m, m2) => CanAssignToStation(w, s, m2) = lastCall.result

\* C12's case: two workers have the same last station and the call for one of
\* them, to that station, is refused.
C12_Witness ==
  /\ lastCall.handler = "canAssignToStation"
  /\ lastCall.result = FALSE
  /\ \E v \in DOMAIN lastCall.lastStationsMap :
       /\ v # lastCall.employeeId
       /\ lastCall.lastStationsMap[v] = <<lastCall.station>>

\* C13: availableStations(w, L, lastStationOf) is L filtered by canAssign, in
\* L's order: L itself when w is absent from the map or has a null last
\* station, and otherwise L without w's last station, every other element of
\* L kept in place.
C13_AvailableIsListWithoutLast ==
  lastCall.handler = "getAvailableStationsForEmployee" =>
    LET w == lastCall.employeeId
        L == lastCall.allStations
        m == lastCall.lastStationsMap
    IN lastCall.result =
         IF w \notin DOMAIN m \/ m[w] = <<>>
         THEN L
         ELSE SelectSeq(L, LAMBDA s : <<s>> # m[w])

\* C13's case: the last station was in the middle of a list of three or more
\* and was taken out.
C13_Witness ==
  /\ lastCall.handler = "getAvailableStationsForEmployee"
  /\ Len(lastCall.allStations) >= 3
  /\ Len(lastCall.result) = Len(lastCall.allStations) - 1
  /\ lastCall.lastStationsMap[lastCall.employeeId] = <<lastCall.allStations[2]>>

(***************************************************************************)
(* HistoryLedger (getEmployeeHistory) on its own: a ledger of a few rows,  *)
(* and one call of the function, which lastCall holds with its result.     *)
(***************************************************************************)
\* The rows of the ledgers the function is called on.
MaxRows == 3

RowKinds ==
  {HistoryRow(w, s, NULL, d) :
     w \in EmployeeIds, s \in Range(StationsToFill),
     d \in {LongAgo, SixMonthsAgo, Today}}

RECURSIVE BagOfRows(_)
BagOfRows(rows) ==
  IF rows = <<>> THEN NoRows
  ELSE SetToBag({Head(rows)}) (+) BagOfRows(Tail(rows))

Ledgers == {BagOfRows(rows) : rows \in UNION {[1..n -> RowKinds] : n \in 0..MaxRows}}

InitHistory ==
  /\ dailyAssignments = NoRows
  /\ workHistory \in Ledgers
  /\ stationNeeds = [s \in Range(StationsToFill) |-> 0]
  /\ assignments = <<>>
  /\ draggedEmployee = <<>>
  /\ warningDialog = <<>>
  /\ loading = FALSE
  /\ dragging = FALSE
  /\ lastCall = Call("mount", "done", <<>>, FALSE, NoToast)
  /\ ops = 0
  /\ faultBudget = 0

GetEmployeeHistoryCall(employeeId) ==
  /\ lastCall.handler = "mount"
  /\ lastCall' = [handler |-> "getEmployeeHistory",
                  employeeId |-> employeeId,
                  result |-> GetEmployeeHistory(workHistory, employeeId)]
  /\ UNCHANGED <<dailyAssignments, workHistory, stationNeeds, assignments,
                 draggedEmployee, warningDialog, loading, dragging, ops,
                 faultBudget>>

NextHistory == \E employeeId \in Callers : GetEmployeeHistoryCall(employeeId)

SpecHistory == InitHistory /\ [][NextHistory]_vars

\* The rows of the ledger that are of worker w, at station s, and dated at
\* windowStart or later, counted copy by copy.
RowsInWindow(w, s) ==
  LET rows == {r \in DOMAIN workHistory :
                 r.employee_id = w /\ r.station = s /\ ~(r.work_date < SixMonthsAgo)}
  IN SumOver([r \in rows |-> CopiesIn(r, workHistory)], rows)

\* C22: the history of worker w maps each station to the number of w's ledger
\* rows there dated at windowStart or later; rows from before the window and
\* rows of other workers are not counted, a station without such a row has no
\* key, and a worker without rows gets the empty map.
C22_HistoryCountsWindowRows ==
  lastCall.handler = "getEmployeeHistory" =>
    LET w == lastCall.employeeId
        history == lastCall.result
    IN /\ DOMAIN history \subseteq StationSet
       /\ \A s \in StationSet :
            IF RowsInWindow(w, s) = 0
            THEN s \notin DOMAIN history
            ELSE s \in DOMAIN history /\ history[s] = RowsInWindow(w, s)
       /\ (\A r \in DOMAIN workHistory : r.employee_id # w) => DOMAIN history = {}

\* C22's case: the ledger holds a row of the worker from before the window, a
\* row of another worker inside it, both at Plock, and a row of the worker at
\* KM dated windowStart; the call returned KM only.
C22_Witness ==
  /\ lastCall.handler = "getEmployeeHistory"
  /\ lastCall.employeeId = employees[1].id
  /\ CopiesIn(HistoryRow(employees[1].id, "Plock", NULL, LongAgo), workHistory) = 1
  /\ CopiesIn(HistoryRow(employees[2].id, "Plock", NULL, Today), workHistory) = 1
  /\ CopiesIn(HistoryRow(employees[1].id, "KM", NULL, SixMonthsAgo), workHistory) = 1
  /\ DOMAIN lastCall.result = {"KM"}

\* The history that the call in flight got for worker w.
Fetched(w) ==
  lastCall.completed[CHOOSE k \in 1..Len(lastCall.completed) :
                       lastCall.completed[k].id = w].history

AnsweredLookups == {lastCall.completed[k].id : k \in 1..Len(lastCall.completed)}

\* C23: the lookups of a run are answered in any order; as long as one of
\* them is open no station is ranked and no placement is written, and the
\* placements are those of the histories taken in selection order, whatever
\* the order of the answers.
C23_RankingWaitsForAllLookups ==
  lastCall.handler = "distributeEmployees" =>
    /\ lastCall.result \in {"delete", "lookups"}
         => /\ lastCall.placements = <<>>
            /\ lastCall.written = 0
            /\ AnsweredLookups # Range(lastCall.selected)
    /\ lastCall.result \in {"inserts", "done"}
         => /\ AnsweredLookups = Range(lastCall.selected)
            /\ lastCall.placements =
                 Placements(stationNeeds,
                            [i \in 1..Len(lastCall.selected) |->
                               [id |-> lastCall.selected[i],
                                history |-> Fetched(lastCall.selected[i])]])

\* C23's case: two workers with equal counts, the lookup of the second one
\* answered first, one place to fill: the run is over and the place went to
\* the worker selected first.
C23_Witness ==
  /\ RunAt("done")
  /\ Len(lastCall.selected) = 2
  /\ lastCall.completed[1].id = lastCall.selected[2]
  /\ Len(lastCall.placements) = 1
  /\ lastCall.placements[1].employeeId = lastCall.selected[1]
  /\ ops = 1

\* The run in flight has had its delete answered and not yet its last insert.
RunIsWriting == RunAt("lookups") \/ RunAt("inserts")

\* C28: the writes of a move do not come between the writes of a distribute
\* run: while the run is between its delete of today's rows and its last
\* insert, a step that is not a step of the run writes no row of
\* daily_assignments or work_history; and when the run ends no worker has two
\* rows in daily_assignments.
C28_MoveWaitsForRun ==
  [][/\ (RunIsWriting /\ lastCall' = lastCall)
          => UNCHANGED <<dailyAssignments, workHistory>>
     /\ (RunIsWriting /\ lastCall'.result = "done")
          => \A w \in EmployeeIds : RowsOfWorker(dailyAssignments', w) <= 1]_vars

(***************************************************************************)
(* Properties of the first version of the component (SpecMap).             *)
(***************************************************************************)
\* A step that moved the held worker: a drop on a card that wrote the move,
\* or a drop on a position.
MoveStepMap ==
  /\ lastCall'.result = "moved"
  /\ ops' = ops + 1
  /\ draggedEmployee.employee # <<>>

\* The cell of another worker than the moved one is at the same station
\* after the step, and at the same position where the station has positions.
CellKept(before, after, station, i, movedId) ==
  LET cell == before[station][i]
  IN (cell # "" /\ cell # movedId)
       => /\ station \in DOMAIN after
          /\ IF station \in PositionStations
             THEN i <= Len(after[station]) /\ after[station][i] = cell
             ELSE cell \in Range(after[station])

\* C24: a move changes the placement of the moved worker only: every other
\* worker has the same station and the same position in the snapshot after
\* the move as before it, also when the destination position is occupied.
C24_MoveLeavesOthersInPlace ==
  [][MoveStepMap =>
       \A station \in DOMAIN assignments :
         \A i \in 1..Len(assignments[station]) :
           CellKept(assignments, assignments', station, i,
                    draggedEmployee.employee[1].id)]_vars

\* The entries of the snapshot as rows: one per filled cell.  The free text
\* is empty in these behaviours, so a cell of FL is a worker dropped there.
RECURSIVE RowsOfCells(_, _, _)
RowsOfCells(station, cells, i) ==
  IF i > Len(cells) THEN NoRows
  ELSE (IF cells[i] = "" THEN NoRows
        ELSE SetToBag({AssignmentRow(cells[i], station, NULL)}))
       (+) RowsOfCells(station, cells, i + 1)

RECURSIVE RowsOfSnapshot(_, _)
RowsOfSnapshot(snapshot, stations) ==
  IF stations = {} THEN NoRows
  ELSE LET station == CHOOSE s \in stations : TRUE
       IN RowsOfCells(station, snapshot[station], 1)
          (+) RowsOfSnapshot(snapshot, stations \ {station})

SnapshotIsStored(snapshot, table) ==
  RowsOfSnapshot(snapshot, DOMAIN snapshot) = table

\* C25: the snapshot refines the store: a completed run or move, a drop on a
\* position included, that starts with the entries of the snapshot being
\* exactly the rows of the date ends with them being exactly the rows of the
\* date.  (No write of such a step fails: every cell is an employee's
\* identifier.)
C25_SnapshotRefinesStore ==
  [][(SnapshotIsStored(assignments, dailyAssignments) /\ ops' = ops + 1)
       => SnapshotIsStored(assignments', dailyAssignments')]_vars

\* C30: the loaded snapshot identifies each worker by the identifier of the
\* row, so that a move started from it (the first operation after the load)
\* deletes the rows of the held worker for the source station from both
\* tables and inserts rows for the same identifier.
C30_LoadedMoveRewritesRows ==
  [][(/\ ops = 0
      /\ lastCall'.handler = "handleDrop"
      /\ lastCall'.result = "moved")
       => LET held == draggedEmployee.employee[1]
              old == AssignmentRow(held.id, held.fromStation, NULL)
              oldVisit == HistoryRow(held.id, held.fromStation, NULL, Today)
          IN /\ held.id \in EmployeeIds
             /\ CopiesIn(old, dailyAssignments) > 0
             /\ CopiesIn(old, dailyAssignments') = 0
             /\ CopiesIn(oldVisit, workHistory') = 0
             /\ \E to \in StationSet :
                  /\ CopiesIn(AssignmentRow(held.id, to, NULL), dailyAssignments') = 1
                  /\ CopiesIn(HistoryRow(held.id, to, NULL, Today), workHistory')
                       = 1]_vars

====
